---- MODULE Spec2Model ----
(***************************************************************************)
(* Doc_Talk backend: the document ingestion pipeline of                    *)
(* backend/controllers/document.js (uploadDocument, the pagerender         *)
(* callback and cleanText), with the record store (the Document            *)
(* collection) and the object store (Cloudinary) it writes to; the read   *)
(* and delete controllers of the same file; and the middleware chain of    *)
(* backend/routes/document.js in front of them (auth, multer).             *)
(*                                                                         *)
(* Text is a sequence of UTF-16 code units (numbers).  An optional value   *)
(* (undefined / null in the source) is the empty sequence, a present       *)
(* value v is <<v>>.                                                       *)
(***************************************************************************)
EXTENDS Integers, Sequences, FiniteSets, TLC

\* ------------------------------------------------------------------ bounds
\* Most files submitted in one run, over all its requests (so the longest list
\* of files of one request, too).
MaxFiles == 2
\* Largest page count of a submitted PDF (PDFs of 0..MaxPages pages).
MaxPages == 2
\* Longest raw string handed to cleanText in SpecText.
MaxLen == 4
\* Longest list of positioned text items of one page in SpecText.
MaxItems == 3
\* Most records created in SpecStore.
MaxDocs == 2

\* ------------------------------------------------------- program constants
\* /[^\x20-\x7E\n]/ : the range kept, and the newline kept beside it.
LoPrintable == 32
HiPrintable == 126
NL == 10
\* The replacement " " of /\s+/g.
SP == 32

\* ------------------------------------------------------------- cleanText
\* As KeptByFirstReplace, had the class been [^\x20-\x7E]: newlines go too.
KeptByFirstReplace_noNewline(c) == c >= LoPrintable /\ c <= HiPrintable

\* A code unit outside [^\x20-\x7E\n] is kept by the first replace.
KeptByFirstReplace(c) == (c >= LoPrintable /\ c <= HiPrintable) \/ c = NL

\* As JsWhitespace, had the second replace been / +/g: only the space.
JsWhitespace_spaceOnly(c) == c = 32

\* JavaScript's \s (and the characters trim() strips): white space and line
\* terminators.
JsWhitespace(c) ==
    \/ c \in {9, 10, 11, 12, 13, 32, 160, 5760, 8232, 8233, 8239, 8287, 12288, 65279}
    \/ (c >= 8192 /\ c <= 8202)

\* text.replace(/[^\x20-\x7E\n]/g, "")
RemoveNonAscii(text) == SelectSeq(text, KeptByFirstReplace)

\* .replace(/\s+/g, " "): every maximal run of \s becomes one space.
RECURSIVE CollapseFrom(_, _)
CollapseFrom(text, i) ==
    IF i > Len(text) THEN <<>>
    ELSE IF JsWhitespace(text[i])
         THEN IF i > 1 /\ JsWhitespace(text[i - 1])
              THEN CollapseFrom(text, i + 1)
              ELSE <<SP>> \o CollapseFrom(text, i + 1)
         ELSE <<text[i]>> \o CollapseFrom(text, i + 1)

CollapseWhitespace(text) == CollapseFrom(text, 1)

\* .trim()
RECURSIVE TrimStart(_)
TrimStart(text) ==
    IF text # <<>> /\ JsWhitespace(Head(text)) THEN TrimStart(Tail(text)) ELSE text

RECURSIVE TrimEnd(_)
TrimEnd(text) ==
    IF text # <<>> /\ JsWhitespace(text[Len(text)])
    THEN TrimEnd(SubSeq(text, 1, Len(text) - 1))
    ELSE text

Trim(text) == TrimEnd(TrimStart(text))

\* As cleanText, had trim() come first in the chain.
cleanText_trimFirst(text) == CollapseWhitespace(RemoveNonAscii(Trim(text)))

cleanText(text) == Trim(CollapseWhitespace(RemoveNonAscii(text)))

\* ------------------------------------------------------------ pagerender
\* let lastY: undefined is <<>>, a number y is <<y>>.
Falsy(lastY) == lastY = <<>> \/ lastY = <<0>>

\* lastY == item.transform[5] (undefined == number is false).
LooseEq(lastY, y) == lastY = <<y>>

\* One iteration of `for (let item of textContent.items)`.
RenderItem(st, item) ==
    [lastY |-> <<item.y>>,
     text  |-> IF LooseEq(st.lastY, item.y) \/ Falsy(st.lastY)
               THEN st.text \o item.str
               ELSE st.text \o <<NL>> \o item.str]

RECURSIVE RenderLoop(_, _, _)
RenderLoop(st, items, i) ==
    IF i > Len(items) THEN st ELSE RenderLoop(RenderItem(st, items[i]), items, i + 1)

\* The raw page text the callback builds (and returns).
PageText(items) == RenderLoop([lastY |-> <<>>, text |-> <<>>], items, 1).text

\* As NextPageNumber, numbering from 0: page: pages.length.
NextPageNumber_zeroBased(pages) == Len(pages)

\* page: pages.length + 1
NextPageNumber(pages) == Len(pages) + 1

\* pages.push({ page, content })
PushPage(pages, text) ==
    Append(pages, [page |-> NextPageNumber(pages), content |-> cleanText(text)])

\* ---------------------------------------------------------------- inputs
Reqs == {1, 2}
Users == {"U1", "U2"}

\* A PDF buffer is named by its page count; pdf n has the pages 1..n.
Pdfs == 0 .. MaxPages
NumPages(buffer) == buffer

\* The positioned text items of physical page p of pdf n.
PageItems(n, p) ==
    << [str |-> <<65 + n>>, y |-> 7],
       [str |-> <<48 + p>>, y |-> IF p % 2 = 0 THEN 7 ELSE 5] >>

\* A file as multer hands it over.
FileOf(n) == [originalname |-> <<"doc", n>>, buffer |-> n]
Files == {FileOf(n) : n \in Pdfs}

RECURSIVE SeqsUpTo(_, _)
SeqsUpTo(S, n) ==
    IF n = 0 THEN {<<>>}
    ELSE LET shorter == SeqsUpTo(S, n - 1)
         IN  shorter \cup {Append(s, x) : s \in {t \in shorter : Len(t) = n - 1}, x \in S}

FileSeqs == SeqsUpTo(Files, MaxFiles)

\* What multer leaves on the request: req.files (an array), req.file (one file),
\* or neither.
ReqShapes ==
    {[files |-> <<fs>>, file |-> <<>>] : fs \in FileSeqs}
    \cup {[files |-> <<>>, file |-> <<f>>] : f \in Files}
    \cup {[files |-> <<>>, file |-> <<>>]}

\* ----------------------------------------------------------------- state
VARIABLES
    db,        \* the Document collection: a set of records
    nextId,    \* the next _id the record store assigns
    cloud,     \* the object store: the objects uploaded so far
    nextUrl,   \* the next URL the object store assigns
    pc,        \* per request: idle, parse, upload, create, done
    req,       \* per request: what the middleware chain left on req
    loc,       \* per request: the locals of uploadDocument
    res,       \* per request: the responses sent, in order
    hist,      \* per request: what happened, in order (history)
    origin,    \* per record _id: the request, file and pages it came from (history)
    budget,    \* the files the clients may still submit in this run
    clients,   \* the requests that arrive in this run
    shapes,    \* what the requests of this run may carry (req.files, req.file)
    tphase,    \* SpecText: items, raw, clean
    titems,    \* SpecText: the text items of a page
    traw,      \* SpecText: the raw text
    tcontent,  \* SpecText: the cleaned text
    tagain,    \* SpecText: the cleaned text, cleaned once more
    call,      \* SpecStore: the last read or delete call answered (history)
    gate,      \* SpecGate: per upload request, and under 0 for the last read or
               \* delete request, what it carried and the middlewares it ran (history)
    del        \* SpecDel: per request slot, the deleteDocument call in progress

storeVars == <<db, nextId, cloud, nextUrl>>
runVars == <<clients, shapes>>
reqVars == <<pc, req, loc, res, hist, origin, budget, clients, shapes>>
textVars == <<tphase, titems, traw, tcontent, tagain>>
callVars == <<call, gate, del>>
vars == <<db, nextId, cloud, nextUrl, pc, req, loc, res, hist, origin, budget, clients, shapes,
          tphase, titems, traw, tcontent, tagain, call, gate, del>>

NoReq == [user |-> "", files |-> <<>>, file |-> <<>>]
NoCall == [op |-> "", user |-> "", id |-> 0, before |-> {}, after |-> {},
           documents |-> <<>>,
           res |-> [status |-> 0, message |-> "", document |-> <<>>]]
NoHeader == [head |-> "", tail |-> ""]
NoPassage == [route |-> "", header |-> NoHeader, files |-> <<>>, ran |-> <<>>, err |-> <<>>]
NoDel == [pc |-> "idle", user |-> "", id |-> 0, seen |-> <<>>, gone |-> FALSE,
          document |-> <<>>,
          rejected |-> FALSE, res |-> [status |-> 0, message |-> "", document |-> <<>>]]
NoLoc == [files |-> <<>>, i |-> 0, pages |-> <<>>, phys |-> <<>>, called |-> 0,
          pending |-> {}, result |-> <<>>, processed |-> <<>>]

InitIdle ==
    /\ db = {}
    /\ nextId = 1
    /\ cloud = {}
    /\ nextUrl = 1
    /\ pc = [r \in Reqs |-> "idle"]
    /\ req = [r \in Reqs |-> NoReq]
    /\ loc = [r \in Reqs |-> NoLoc]
    /\ res = [r \in Reqs |-> <<>>]
    /\ hist = [r \in Reqs |-> <<>>]
    /\ origin = <<>>
    /\ call = NoCall
    /\ gate = [r \in Reqs \cup {0} |-> NoPassage]
    /\ del = [r \in Reqs |-> NoDel]

\* One request, with any of ReqShapes.
InitServer ==
    /\ InitIdle
    /\ budget = MaxFiles
    /\ clients = {1}
    /\ shapes = ReqShapes

InitTextIdle ==
    /\ tphase = "off"
    /\ titems = <<>>
    /\ traw = <<>>
    /\ tcontent = <<>>
    /\ tagain = <<>>

Init == InitServer /\ InitTextIdle

\* ---------------------------------------------------------------- errors
ExtractionError == [name |-> "Error", code |-> "", message |-> "Invalid PDF structure"]
UploadError == [name |-> "Error", code |-> "", message |-> "Upload failed"]
TypeError == [name |-> "TypeError", code |-> "", message |-> "Cannot read properties of undefined"]
PersistenceError == [name |-> "MongoServerError", code |-> "", message |-> "write failed"]
ValidationError == [name |-> "ValidationError", code |-> "", message |-> "Document validation failed"]

\* The centralized error handler of index.js, for an error object.
\* As ErrorHandler, without the branches for the upload gate's errors.
ErrorHandler_only500(err) ==
    [status |-> 500,
     message |-> IF err.message # "" THEN err.message ELSE "Internal server error",
     count |-> 0, documents |-> <<>>]

ErrorHandler(err) ==
    IF err.name = "MulterError"
    THEN IF err.code = "LIMIT_FILE_SIZE"
         THEN [status |-> 413, message |-> "File too large. Max size is 10MB.",
               count |-> 0, documents |-> <<>>]
         ELSE [status |-> 400,
               message |-> IF err.message # "" THEN err.message ELSE "File upload error",
               count |-> 0, documents |-> <<>>]
    ELSE IF err.code = "INVALID_FILE_TYPE" \/ err.message = "Only PDF files are allowed"
         THEN [status |-> 400, message |-> "Only PDF files are allowed",
               count |-> 0, documents |-> <<>>]
         ELSE [status |-> 500,
               message |-> IF err.message # "" THEN err.message ELSE "Internal server error",
               count |-> 0, documents |-> <<>>]

\* next(err): an error goes to the centralized handler; next(undefined) is no
\* error to Express, which runs on to its final 404.
NextErr(err) ==
    IF err = <<>>
    THEN [status |-> 404, message |-> "Cannot POST /api/documents/upload",
          count |-> 0, documents |-> <<>>]
    ELSE ErrorHandler(err[1])

\* -------------------------------------------------------- uploadDocument
\* const files = req.files || (req.file ? [req.file] : []);
NormalizeFiles(reqFiles, reqFile) ==
    IF reqFiles # <<>> THEN reqFiles[1]
    ELSE IF reqFile # <<>> THEN <<reqFile[1]>> ELSE <<>>

\* As CurFile, had the loop run over the files from the last to the first.
CurFile_reversed(r) == loc[r].files[Len(loc[r].files) + 1 - loc[r].i]

CurFile(r) == loc[r].files[loc[r].i]

Event(ev, k, err) == [ev |-> ev, k |-> k, err |-> err]

\* The records this request has created.
RecordsOf(r) == {d \in db : origin[d._id].req = r}

\* As AfterCatch, had the catch block rolled the request's records back.
AfterCatch_rollback(r) == db \ RecordsOf(r)

\* The catch block only calls next(err): what the request has stored stays.
AfterCatch(r) == db

\* As Fail, had the catch block swallowed the error: catch (err) { }
Fail_noResponse(r, err, ev) ==
    /\ db' = AfterCatch(r)
    /\ res' = res
    /\ pc' = [pc EXCEPT ![r] = "done"]
    /\ hist' = [hist EXCEPT ![r] = Append(@, ev)]

\* catch (err) { next(err); }
Fail(r, err, ev) ==
    /\ db' = AfterCatch(r)
    /\ res' = [res EXCEPT ![r] = Append(@, NextErr(err))]
    /\ pc' = [pc EXCEPT ![r] = "done"]
    /\ hist' = [hist EXCEPT ![r] = Append(@, ev)]

\* As NoFiles, had the test been `if (!files)`: an array is never falsy.
NoFiles_truthyTest(files) == FALSE

\* if (files.length === 0)
NoFiles(files) == Len(files) = 0

\* res.status(201).json({ message, count, documents })
Success(processed) ==
    [status |-> 201, message |-> "Document(s) uploaded and processed successfully",
     count |-> Len(processed), documents |-> processed]

\* uploadDocument is entered for request r, of user u, with what the
\* middleware chain left on req: lines 58-78.
Admit(r, u, shape) ==
    LET files == NormalizeFiles(shape.files, shape.file) IN
    /\ Len(files) <= budget
    /\ budget' = budget - Len(files)
    /\ req' = [req EXCEPT ![r] = [user |-> u, files |-> shape.files, file |-> shape.file]]
    /\ IF NoFiles(files)
       THEN /\ res' = [res EXCEPT ![r] = Append(@,
                    [status |-> 400, message |-> "No file uploaded",
                     count |-> 0, documents |-> <<>>])]
            /\ pc' = [pc EXCEPT ![r] = "done"]
            /\ loc' = loc
       ELSE IF Len(files) = 0
            THEN \* the loop body never runs
                 /\ res' = [res EXCEPT ![r] = Append(@, Success(<<>>))]
                 /\ pc' = [pc EXCEPT ![r] = "done"]
                 /\ loc' = loc
            ELSE /\ loc' = [loc EXCEPT ![r] = [NoLoc EXCEPT !.files = files, !.i = 1]]
                 /\ pc' = [pc EXCEPT ![r] = "parse"]
                 /\ res' = res

\* The request reaches the controller, its user authenticated and its files
\* let through upstream.
UploadBegin(r) ==
    /\ pc[r] = "idle"
    /\ r \in clients
    /\ \E u \in Users, shape \in shapes : Admit(r, u, shape)
    /\ UNCHANGED <<storeVars, hist, origin, runVars, textVars, callVars>>

\* pdf(file.buffer, options) calls pagerender for the next page; the callback
\* awaits pageData.getTextContent().
PageRenderCall(r) ==
    /\ pc[r] = "parse"
    /\ loc[r].called < NumPages(CurFile(r).buffer)
    /\ loc' = [loc EXCEPT ![r].called = @ + 1, ![r].pending = @ \cup {loc[r].called + 1}]
    /\ UNCHANGED <<storeVars, pc, req, res, hist, origin, budget, runVars, textVars, callVars>>

\* As PageRenderPush, had `pages` been one list of the module, shared by the
\* calls: the push lands in the list every call in extraction is filling.
PageRenderPush_sharedPages(r) ==
    /\ pc[r] = "parse"
    /\ \E p \in loc[r].pending :
        loc' = [q \in Reqs |->
                 IF q = r
                 THEN [loc[q] EXCEPT
                         !.pages = PushPage(@, PageText(PageItems(CurFile(r).buffer, p))),
                         !.phys = Append(@, p),
                         !.pending = @ \ {p}]
                 ELSE IF pc[q] = "parse"
                      THEN [loc[q] EXCEPT
                              !.pages = PushPage(@, PageText(PageItems(CurFile(r).buffer, p))),
                              !.phys = Append(@, p)]
                      ELSE loc[q]]
    /\ UNCHANGED <<storeVars, pc, req, res, hist, origin, budget, runVars, textVars, callVars>>

\* getTextContent() of page p resolves: the callback builds the text and pushes.
PageRenderPush(r) ==
    /\ pc[r] = "parse"
    /\ \E p \in loc[r].pending :
        loc' = [loc EXCEPT
                  ![r].pages = PushPage(@, PageText(PageItems(CurFile(r).buffer, p))),
                  ![r].phys = Append(@, p),
                  ![r].pending = @ \ {p}]
    /\ UNCHANGED <<storeVars, pc, req, res, hist, origin, budget, runVars, textVars, callVars>>

\* As ParseResolve, had pdf(...) not been awaited: the upload starts with the
\* pages pushed so far.
ParseResolve_notAwaited(r) ==
    /\ pc[r] = "parse"
    /\ pc' = [pc EXCEPT ![r] = "upload"]
    /\ hist' = [hist EXCEPT ![r] = Append(@, Event("extracted", loc[r].i, FALSE))]
    /\ UNCHANGED <<storeVars, req, loc, res, origin, budget, runVars, textVars, callVars>>

\* await pdf(...) resolves once every page was rendered; stream.end(file.buffer)
\* starts the upload.
ParseResolve(r) ==
    /\ pc[r] = "parse"
    /\ loc[r].called = NumPages(CurFile(r).buffer)
    /\ loc[r].pending = {}
    /\ pc' = [pc EXCEPT ![r] = "upload"]
    /\ hist' = [hist EXCEPT ![r] = Append(@, Event("extracted", loc[r].i, FALSE))]
    /\ UNCHANGED <<storeVars, req, loc, res, origin, budget, runVars, textVars, callVars>>

\* As ParseReject, had the rejection been swallowed: the loop goes on to the
\* upload of the file.
ParseReject_swallowed(r) ==
    /\ pc[r] = "parse"
    /\ pc' = [pc EXCEPT ![r] = "upload"]
    /\ hist' = [hist EXCEPT ![r] = Append(@, Event("extract_failed", loc[r].i, TRUE))]
    /\ UNCHANGED <<storeVars, req, loc, res, origin, budget, runVars, textVars, callVars>>

\* As ParseReject, had the failing file been recorded with what was collected
\* (a record in state 'uploaded') before the error is passed on.
ParseReject_savesPartial(r) ==
    /\ pc[r] = "parse"
    /\ db' = db \cup {[_id |-> nextId, createdAt |-> nextId,
                       owner |-> req[r].user,
                       originalName |-> CurFile(r).originalname,
                       fileType |-> "pdf", storagePath |-> 0, status |-> "uploaded",
                       extractedText |-> [pages |-> loc[r].pages]]}
    /\ nextId' = nextId + 1
    /\ origin' = Append(origin, [req |-> r, k |-> loc[r].i, phys |-> loc[r].phys])
    /\ res' = [res EXCEPT ![r] = Append(@, NextErr(<<ExtractionError>>))]
    /\ pc' = [pc EXCEPT ![r] = "done"]
    /\ hist' = [hist EXCEPT ![r] = Append(@, Event("extract_failed", loc[r].i, TRUE))]
    /\ UNCHANGED <<cloud, nextUrl, req, loc, budget, runVars, textVars, callVars>>

\* As ParseReject, had the failing file been skipped (a try/catch inside the
\* loop): the loop goes on to the next file, or answers with what it has.
ParseReject_skipsFile(r) ==
    /\ pc[r] = "parse"
    /\ hist' = [hist EXCEPT ![r] = Append(@, Event("extract_failed", loc[r].i, TRUE))]
    /\ IF loc[r].i < Len(loc[r].files)
       THEN /\ loc' = [loc EXCEPT ![r] = [NoLoc EXCEPT
                          !.files = loc[r].files,
                          !.i = loc[r].i + 1,
                          !.processed = loc[r].processed]]
            /\ pc' = [pc EXCEPT ![r] = "parse"]
            /\ res' = res
       ELSE /\ loc' = loc
            /\ pc' = [pc EXCEPT ![r] = "done"]
            /\ res' = [res EXCEPT ![r] = Append(@, Success(loc[r].processed))]
    /\ UNCHANGED <<storeVars, req, origin, budget, runVars, textVars, callVars>>

\* await pdf(...) rejects (the buffer does not parse), at any point of the parse.
ParseReject(r) ==
    /\ pc[r] = "parse"
    /\ Fail(r, <<ExtractionError>>, Event("extract_failed", loc[r].i, TRUE))
    /\ UNCHANGED <<nextId, cloud, nextUrl, req, loc, origin, budget, runVars, textVars, callVars>>

\* (error, result) => { if (result) resolve(result); else reject(error); }
UploadSettles(error, result) == IF result # <<>> THEN "resolve" ELSE "reject"

\* As UploadCallback, had a rejected upload been tried again: the failure is
\* noted and the file's upload is started once more.
UploadCallback_retries(r) ==
    /\ pc[r] = "upload"
    /\ \E stored \in BOOLEAN, error \in {<<>>, <<UploadError>>} :
        LET result == IF stored THEN <<[secure_url |-> nextUrl]>> ELSE <<>> IN
        /\ cloud' = IF stored
                    THEN cloud \cup {[url |-> nextUrl, bytes |-> CurFile(r).buffer,
                                      by |-> <<r, loc[r].i>>]}
                    ELSE cloud
        /\ nextUrl' = IF stored THEN nextUrl + 1 ELSE nextUrl
        /\ hist' = [hist EXCEPT ![r] = Append(@,
                        Event(IF result # <<>> THEN "upload_resolved" ELSE "upload_rejected",
                              loc[r].i, error # <<>>))]
        /\ loc' = IF result # <<>> THEN [loc EXCEPT ![r].result = result] ELSE loc
        /\ pc' = IF result # <<>> THEN [pc EXCEPT ![r] = "create"] ELSE pc
    /\ UNCHANGED <<db, res, nextId, req, origin, budget, runVars, textVars, callVars>>

\* The object store answers the upload: it has stored the object (and hands back
\* its URL in result) or not, and it reports an error or none.
UploadCallback(r) ==
    /\ pc[r] = "upload"
    /\ \E stored \in BOOLEAN, error \in {<<>>, <<UploadError>>} :
        LET result == IF stored THEN <<[secure_url |-> nextUrl]>> ELSE <<>> IN
        /\ cloud' = IF stored
                    THEN cloud \cup {[url |-> nextUrl, bytes |-> CurFile(r).buffer,
                                      by |-> <<r, loc[r].i>>]}
                    ELSE cloud
        /\ nextUrl' = IF stored THEN nextUrl + 1 ELSE nextUrl
        /\ IF UploadSettles(error, result) = "resolve"
           THEN /\ loc' = [loc EXCEPT ![r].result = result]
                /\ pc' = [pc EXCEPT ![r] = "create"]
                /\ hist' = [hist EXCEPT ![r] =
                              Append(@, Event("upload_resolved", loc[r].i, error # <<>>))]
                /\ UNCHANGED <<db, res>>
           ELSE /\ Fail(r, error, Event("upload_rejected", loc[r].i, error # <<>>))
                /\ loc' = loc
    /\ UNCHANGED <<nextId, req, origin, budget, runVars, textVars, callVars>>

\* As NewDoc, had status been left to the schema's default.
NewDoc_defaultStatus(user, file, result, pages) ==
    [owner |-> user,
     originalName |-> file.originalname,
     fileType |-> "pdf",
     storagePath |-> result.secure_url,
     status |-> "uploaded",
     extractedText |-> [pages |-> pages]]

\* The object handed to Document.create: lines 143-150.
NewDoc(user, file, result, pages) ==
    [owner |-> user,
     originalName |-> file.originalname,
     fileType |-> "pdf",
     storagePath |-> result.secure_url,
     status |-> "processed",
     extractedText |-> [pages |-> pages]]

\* The schema's required fields: owner, originalName, fileType, storagePath
\* (a URL is a number from 1 on).
ValidDoc(d) ==
    /\ d.owner # ""
    /\ d.originalName # <<>>
    /\ d.fileType # ""
    /\ d.storagePath >= 1

\* As PushProcessed, with unshift for push.
PushProcessed_unshift(processed, doc) == <<doc>> \o processed

\* processedDocuments.push(doc)
PushProcessed(processed, doc) == Append(processed, doc)

\* As CreateDone, had the catch destroyed the remote object of the file whose
\* record could not be created.
CreateDone_compensates(r) ==
    /\ pc[r] = "create"
    /\ \E ok \in BOOLEAN :
        IF loc[r].result = <<>>
        THEN /\ Fail(r, <<TypeError>>, Event("create_failed", loc[r].i, TRUE))
             /\ UNCHANGED <<nextId, loc, origin>>
        ELSE LET d == NewDoc(req[r].user, CurFile(r), loc[r].result[1], loc[r].pages)
                 doc == [_id |-> nextId, createdAt |-> nextId] @@ d
                 processed == PushProcessed(loc[r].processed, doc)
             IN  IF ok /\ ValidDoc(d)
                 THEN /\ db' = db \cup {doc}
                      /\ nextId' = nextId + 1
                      /\ origin' = Append(origin,
                              [req |-> r, k |-> loc[r].i, phys |-> loc[r].phys])
                      /\ hist' = [hist EXCEPT ![r] =
                                    Append(@, Event("created", loc[r].i, FALSE))]
                      /\ IF loc[r].i < Len(loc[r].files)
                         THEN /\ loc' = [loc EXCEPT ![r] = [NoLoc EXCEPT
                                            !.files = loc[r].files,
                                            !.i = loc[r].i + 1,
                                            !.processed = processed]]
                              /\ pc' = [pc EXCEPT ![r] = "parse"]
                              /\ res' = res
                         ELSE /\ loc' = [loc EXCEPT ![r].processed = processed]
                              /\ pc' = [pc EXCEPT ![r] = "done"]
                              /\ res' = [res EXCEPT ![r] = Append(@, Success(processed))]
                 ELSE /\ Fail(r, <<IF ok THEN ValidationError ELSE PersistenceError>>,
                              Event("create_failed", loc[r].i, TRUE))
                      /\ UNCHANGED <<nextId, loc, origin>>
    /\ cloud' = IF db' = db THEN {o \in cloud : o.by # <<r, loc[r].i>>} ELSE cloud
    /\ UNCHANGED <<nextUrl, req, budget, runVars, textVars, callVars>>

\* await Document.create(...) settles: the record is stored and pushed to
\* processedDocuments, then the loop goes on or the response is sent; or the
\* store fails.
CreateDone(r) ==
    /\ pc[r] = "create"
    /\ \E ok \in BOOLEAN :
        IF loc[r].result = <<>>
        THEN /\ Fail(r, <<TypeError>>, Event("create_failed", loc[r].i, TRUE))
             /\ UNCHANGED <<nextId, loc, origin>>
        ELSE LET d == NewDoc(req[r].user, CurFile(r), loc[r].result[1], loc[r].pages)
                 doc == [_id |-> nextId, createdAt |-> nextId] @@ d
                 processed == PushProcessed(loc[r].processed, doc)
             IN  IF ok /\ ValidDoc(d)
                 THEN /\ db' = db \cup {doc}
                      /\ nextId' = nextId + 1
                      /\ origin' = Append(origin,
                              [req |-> r, k |-> loc[r].i, phys |-> loc[r].phys])
                      /\ hist' = [hist EXCEPT ![r] =
                                    Append(@, Event("created", loc[r].i, FALSE))]
                      /\ IF loc[r].i < Len(loc[r].files)
                         THEN /\ loc' = [loc EXCEPT ![r] = [NoLoc EXCEPT
                                            !.files = loc[r].files,
                                            !.i = loc[r].i + 1,
                                            !.processed = processed]]
                              /\ pc' = [pc EXCEPT ![r] = "parse"]
                              /\ res' = res
                         ELSE /\ loc' = [loc EXCEPT ![r].processed = processed]
                              /\ pc' = [pc EXCEPT ![r] = "done"]
                              /\ res' = [res EXCEPT ![r] = Append(@, Success(processed))]
                 ELSE /\ Fail(r, <<IF ok THEN ValidationError ELSE PersistenceError>>,
                              Event("create_failed", loc[r].i, TRUE))
                      /\ UNCHANGED <<nextId, loc, origin>>
    /\ UNCHANGED <<cloud, nextUrl, req, budget, runVars, textVars, callVars>>

Next ==
    \E r \in Reqs :
        \/ UploadBegin(r)
        \/ PageRenderCall(r)
        \/ PageRenderPush(r)
        \/ ParseResolve(r)
        \/ ParseReject(r)
        \/ UploadCallback(r)
        \/ CreateDone(r)

Spec == Init /\ [][Next]_vars

\* -------------------------------------------------------------- SpecTwo
\* Two calls in flight together.  Each carries one file or two different
\* files, of one page and of MaxPages pages, three files between them.
TwoShapes ==
    {[files |-> <<fs>>, file |-> <<>>] :
        fs \in {<<FileOf(1)>>, <<FileOf(MaxPages)>>,
                <<FileOf(1), FileOf(MaxPages)>>, <<FileOf(MaxPages), FileOf(1)>>}}

InitTwo ==
    /\ InitIdle
    /\ budget = 3
    /\ clients = Reqs
    /\ shapes = TwoShapes
    /\ InitTextIdle

SpecTwo == InitTwo /\ [][Next]_vars

\* ------------------------------------------------------------- SpecLive
\* The requests of the fair specification: no file at all, or one or two
\* files of one page and of MaxPages pages.
LiveShapes ==
    TwoShapes \cup {[files |-> <<>>, file |-> <<>>], [files |-> <<<<>>>>, file |-> <<>>],
                    [files |-> <<>>, file |-> <<FileOf(1)>>]}

InitLive ==
    /\ InitIdle
    /\ budget = 2
    /\ clients = {1}
    /\ shapes = LiveShapes
    /\ InitTextIdle

\* A step of request r that waits for no client: a page callback, the
\* settling of pdf(), the upload callback, the settling of Document.create.
ExternalReturns(r) ==
    \/ PageRenderCall(r)
    \/ PageRenderPush(r)
    \/ ParseResolve(r)
    \/ ParseReject(r)
    \/ UploadCallback(r)
    \/ CreateDone(r)

\* Every external call of a request eventually returns or fails; when a
\* client sends a request is left open.
SpecLive == InitLive /\ [][Next]_vars /\ \A r \in Reqs : WF_vars(ExternalReturns(r))

\* ------------------------------------------------------------- SpecText
\* The pagerender callback's text and cleanText as functions of their inputs.
Alphabet == {9, 10, 32, 97, 126, 127, 160}
Strings == SeqsUpTo(Alphabet, MaxLen)

Ys == {0, 5, 7}
Items == {[str |-> <<c>>, y |-> y] : c \in {97, 126}, y \in Ys}
ItemSeqs == SeqsUpTo(Items, MaxItems)

InitText ==
    /\ InitServer
    /\ tcontent = <<>>
    /\ tagain = <<>>
    /\ \/ tphase = "items" /\ titems \in ItemSeqs /\ traw = <<>>
       \/ tphase = "raw" /\ titems = <<>> /\ traw \in Strings

\* The callback's loop over textContent.items: lines 88-101.
TextRender ==
    /\ tphase = "items"
    /\ traw' = PageText(titems)
    /\ tphase' = "raw"
    /\ UNCHANGED <<storeVars, reqVars, callVars, titems, tcontent, tagain>>

\* content: cleanText(text)
TextClean ==
    /\ tphase = "raw"
    /\ tcontent' = cleanText(traw)
    /\ tphase' = "clean"
    /\ UNCHANGED <<storeVars, reqVars, callVars, titems, traw, tagain>>

\* cleanText applied to a text that cleanText returned.
TextReclean ==
    /\ tphase = "clean"
    /\ tagain' = cleanText(tcontent)
    /\ tphase' = "again"
    /\ UNCHANGED <<storeVars, reqVars, callVars, titems, traw, tcontent>>

NextText == TextRender \/ TextClean \/ TextReclean

SpecText == InitText /\ [][NextText]_vars

\* ------------------------------------------------------------ SpecStore
\* The record store under getDocuments, getDocumentById and deleteDocument,
\* with the records that upload calls create in it.

\* The pages of pdf n when its callbacks push in page order.
RECURSIVE PagesInOrder(_, _)
PagesInOrder(n, p) ==
    IF p = 0 THEN <<>>
    ELSE PushPage(PagesInOrder(n, p - 1), PageText(PageItems(n, p)))

\* Lines 113-152 for one file whose steps all succeed, as the stores see them:
\* the object is stored, then Document.create stores the record.  The file is
\* a PDF without pages or one of MaxPages pages.
StoreCreate ==
    /\ nextId <= MaxDocs
    /\ \E u \in Users, n \in {0, MaxPages} :
        LET result == [secure_url |-> nextUrl]
            doc == [_id |-> nextId, createdAt |-> nextId]
                   @@ NewDoc(u, FileOf(n), result, PagesInOrder(n, NumPages(n)))
        IN  /\ ValidDoc(doc)
            /\ cloud' = cloud \cup {[url |-> nextUrl, bytes |-> n, by |-> <<0, 1>>]}
            /\ nextUrl' = nextUrl + 1
            /\ db' = db \cup {doc}
            /\ nextId' = nextId + 1
            /\ origin' = Append(origin,
                    [req |-> 0, k |-> 1, phys |-> [p \in 1 .. NumPages(n) |-> p]])
    /\ UNCHANGED <<pc, req, loc, res, hist, budget, runVars, textVars, callVars>>

\* The ids a client may ask for: those the store has assigned or may assign,
\* and one it never assigns.
Ids == 1 .. (MaxDocs + 1)

\* As FindOne, had the filter been { _id } alone.
FindOne_byIdOnly(store, id, owner) ==
    LET match == {d \in store : d._id = id}
    IN  IF match = {} THEN <<>> ELSE <<CHOOSE d \in match : TRUE>>

\* Document.findOne({ _id: id, owner: owner }): null is <<>>.
FindOne(store, id, owner) ==
    LET match == {d \in store : d._id = id /\ d.owner = owner}
    IN  IF match = {} THEN <<>> ELSE <<CHOOSE d \in match : TRUE>>

\* As FindOneAndDelete, had the record been kept and marked (a soft delete
\* that takes the record back to 'uploaded').
FindOneAndDelete_softDelete(store, id, owner) ==
    LET match == {d \in store : d._id = id /\ d.owner = owner}
    IN  IF match = {} THEN [document |-> <<>>, store |-> store]
        ELSE LET d == CHOOSE x \in match : TRUE
             IN  [document |-> <<d>>,
                  store |-> (store \ {d}) \cup {[d EXCEPT !.status = "uploaded"]}]

\* As FindOneAndDelete, had the filter been { _id } alone.
FindOneAndDelete_byIdOnly(store, id, owner) ==
    LET match == {d \in store : d._id = id}
    IN  IF match = {} THEN [document |-> <<>>, store |-> store]
        ELSE LET d == CHOOSE x \in match : TRUE
             IN  [document |-> <<d>>, store |-> store \ {d}]

\* Document.findOneAndDelete({ _id: id, owner: owner }): the record found and
\* the store without it.
FindOneAndDelete(store, id, owner) ==
    LET match == {d \in store : d._id = id /\ d.owner = owner}
    IN  IF match = {} THEN [document |-> <<>>, store |-> store]
        ELSE LET d == CHOOSE x \in match : TRUE
             IN  [document |-> <<d>>, store |-> store \ {d}]

StoreError == [name |-> "MongooseError", code |-> "", message |-> "query failed"]

\* catch (err) { res.status(500).json({ message: err.message || ... }) }
CatchResponse(err) ==
    [status |-> 500,
     message |-> IF err.message # "" THEN err.message ELSE "Internal server error",
     document |-> <<>>]

NotFound == [status |-> 404, message |-> "Document not found", document |-> <<>>]

\* The answer of getDocumentById when the query answers: lines 222-233.
GetResponse(store, id, user) ==
    LET document == FindOne(store, id, user)
    IN  IF document = <<>> THEN NotFound
        ELSE [status |-> 200, message |-> "", document |-> document]

\* The answer of deleteDocument when the query answers: lines 266-278.
DeleteResponse(store, id, user) ==
    LET document == FindOneAndDelete(store, id, user).document
    IN  IF document = <<>> THEN NotFound
        ELSE [status |-> 200, message |-> "Document deleted successfully",
              document |-> <<>>]

\* As CloudAfterDelete, had the handler destroyed the record's remote object.
CloudAfterDelete_destroys(document) ==
    IF document = <<>> THEN cloud
    ELSE {o \in cloud : o.url # document[1].storagePath}

\* deleteDocument makes no call to the object store.
CloudAfterDelete(document) == cloud

\* getDocumentById for the user u and the id x; the query answers or rejects.
GetDocumentByIdAs(u, x, rejects) ==
    /\ call' = [op |-> "get", user |-> u, id |-> x, before |-> db, after |-> db,
                documents |-> <<>>,
                res |-> IF rejects THEN CatchResponse(StoreError)
                        ELSE GetResponse(db, x, u)]
    /\ UNCHANGED <<db, cloud>>

\* GET /:id by an authenticated user.
GetDocumentById ==
    /\ \E u \in Users, x \in Ids, rejects \in BOOLEAN : GetDocumentByIdAs(u, x, rejects)
    /\ UNCHANGED <<nextId, nextUrl, reqVars, textVars, gate, del>>

\* deleteDocument for the user u and the id x; the query answers or rejects.
DeleteDocumentAs(u, x, rejects) ==
    /\ db' = IF rejects THEN db ELSE FindOneAndDelete(db, x, u).store
    /\ cloud' = IF rejects THEN cloud
                ELSE CloudAfterDelete(FindOneAndDelete(db, x, u).document)
    /\ call' = [op |-> "delete", user |-> u, id |-> x, before |-> db, after |-> db',
                documents |-> <<>>,
                res |-> IF rejects THEN CatchResponse(StoreError)
                        ELSE DeleteResponse(db, x, u)]

\* DELETE /:id by an authenticated user.
DeleteDocument ==
    /\ \E u \in Users, x \in Ids, rejects \in BOOLEAN : DeleteDocumentAs(u, x, rejects)
    /\ UNCHANGED <<nextId, nextUrl, reqVars, textVars, gate, del>>

\* As Find, had the filter been empty: find({}).
Find_everyOwner(store, owner) == store

\* Document.find({ owner: owner })
Find(store, owner) == {d \in store : d.owner = owner}

\* As SortNewestFirst, with sort({ createdAt: 1 }).
RECURSIVE SortNewestFirst_oldestFirst(_)
SortNewestFirst_oldestFirst(found) ==
    IF found = {} THEN <<>>
    ELSE LET d == CHOOSE x \in found : \A y \in found : y.createdAt >= x.createdAt
         IN  <<d>> \o SortNewestFirst_oldestFirst(found \ {d})

\* .sort({ createdAt: -1 })
RECURSIVE SortNewestFirst(_)
SortNewestFirst(found) ==
    IF found = {} THEN <<>>
    ELSE LET d == CHOOSE x \in found : \A y \in found : y.createdAt <= x.createdAt
         IN  <<d>> \o SortNewestFirst(found \ {d})

\* getDocuments for the user u; the query answers or rejects.
GetDocumentsAs(u, rejects) ==
    /\ call' = [op |-> "list", user |-> u, id |-> 0, before |-> db, after |-> db,
                documents |-> IF rejects THEN <<>> ELSE SortNewestFirst(Find(db, u)),
                res |-> IF rejects THEN CatchResponse(StoreError)
                        ELSE [status |-> 200, message |-> "", document |-> <<>>]]
    /\ UNCHANGED <<db, cloud>>

\* GET / by an authenticated user.
GetDocuments ==
    /\ \E u \in Users, rejects \in BOOLEAN : GetDocumentsAs(u, rejects)
    /\ UNCHANGED <<nextId, nextUrl, reqVars, textVars, gate, del>>

NextStore == StoreCreate \/ GetDocuments \/ GetDocumentById \/ DeleteDocument

SpecStore == Init /\ [][NextStore]_vars

\* ------------------------------------------------------------- SpecGate
\* The middleware chain in front of the document controllers: auth on every
\* route, then upload.any() on POST /upload, then the controller; an error
\* handed to next() goes to the centralized handler.

\* An Authorization header, cut where the code cuts it: its first seven
\* characters and what follows them.  An absent header is the empty string.
Headers ==
    { NoHeader,
      [head |-> "Basic d", tail |-> "XNlcg=="],
      [head |-> "bearer ", tail |-> "tokU1"],
      [head |-> "Bearer ", tail |-> ""],
      [head |-> "Bearer ", tail |-> "forged"],
      [head |-> "Bearer ", tail |-> "tokU1"],
      [head |-> "Bearer ", tail |-> "tokU2"] }

\* header.startsWith("Bearer ") ? header.slice(7) : null
BearerToken(header) == IF header.head = "Bearer " THEN <<header.tail>> ELSE <<>>

\* jwt.decode in place of jwt.verify: the signature is not looked at.
JwtVerify_decodeOnly(token) ==
    CASE token = "tokU1" -> <<[id |-> "U1", email |-> "u1@x"]>>
      [] token = "tokU2" -> <<[id |-> "U2", email |-> "u2@x"]>>
      [] token = "forged" -> <<[id |-> "U1", email |-> "u1@x"]>>
      [] OTHER -> <<>>

\* jwt.verify(token, JWT_SECRET): the payload of a token signed with the
\* secret and not expired; <<>> when it throws.
JwtVerify(token) ==
    CASE token = "tokU1" -> <<[id |-> "U1", email |-> "u1@x"]>>
      [] token = "tokU2" -> <<[id |-> "U2", email |-> "u2@x"]>>
      [] OTHER -> <<>>

Unauthorized(message) ==
    [next |-> FALSE, user |-> "", status |-> 401, message |-> message]

\* The auth middleware: either it answers 401 or it sets req.user and calls
\* next().
Auth(header) ==
    LET token == BearerToken(header)
    IN  IF token = <<>> \/ token = <<"">>
        THEN Unauthorized("Authentication required")
        ELSE IF JwtVerify(token[1]) = <<>>
             THEN Unauthorized("Invalid or expired token")
             ELSE [next |-> TRUE, user |-> JwtVerify(token[1])[1].id,
                   status |-> 0, message |-> ""]

FileSizeLimit == 10485760

DotPdf == <<46, 112, 100, 102>>

\* String.prototype.toLowerCase on the code units of a file name.
ToLowerCase(s) == [i \in 1..Len(s) |-> IF s[i] >= 65 /\ s[i] <= 90 THEN s[i] + 32 ELSE s[i]]

\* String.prototype.endsWith
EndsWith(s, suffix) ==
    /\ Len(s) >= Len(suffix)
    /\ SubSeq(s, Len(s) - Len(suffix) + 1, Len(s)) = suffix

\* toLowerCase on the MIME types the clients send.
MimeToLowerCase(m) ==
    CASE m = "Application/PDF" -> "application/pdf"
      [] OTHER -> m

Mimes == {"", "application/pdf", "application/x-pdf", "Application/PDF",
          "application/octet-stream", "text/plain"}

InvalidFileType ==
    [name |-> "Error", code |-> "INVALID_FILE_TYPE", message |-> "Only PDF files are allowed"]

MulterError(code, message) == [name |-> "MulterError", code |-> code, message |-> message]

\* fileFilter: <<>> when the file is accepted, the error otherwise.
FileFilter(file) ==
    LET mime == MimeToLowerCase(file.mimetype)
        name == ToLowerCase(file.originalname)
        isPdfMime == mime = "application/pdf" \/ mime = "application/x-pdf"
        isPdfByName == EndsWith(name, DotPdf)
        isGenericButPdf == mime = "application/octet-stream" /\ isPdfByName
    IN  IF isPdfMime \/ isGenericButPdf \/ isPdfByName THEN <<>> ELSE <<InvalidFileType>>

\* What multer does with one file part: the field name is checked when the
\* part starts, then the filter is asked, then the bytes are counted while
\* they are buffered.
MulterFile(file) ==
    IF file.longField
    THEN <<MulterError("LIMIT_FIELD_KEY", "Field name too long")>>
    ELSE IF FileFilter(file) # <<>>
         THEN FileFilter(file)
         ELSE IF file.size > FileSizeLimit
              THEN <<MulterError("LIMIT_FILE_SIZE", "File too large")>>
              ELSE <<>>

\* upload.any(): the parts are taken in order and the first error ends the
\* request; <<>> when every file was accepted.
RECURSIVE MulterAny(_)
MulterAny(files) ==
    IF files = <<>> THEN <<>>
    ELSE IF MulterFile(Head(files)) # <<>> THEN MulterFile(Head(files))
         ELSE MulterAny(Tail(files))

APdf == <<97, 46, 112, 100, 102>>
UpperPdf == <<65, 46, 80, 68, 70>>
ATxt == <<97, 46, 116, 120, 116>>

GateFile(name, mime, size, longField) ==
    [originalname |-> name, mimetype |-> mime, size |-> size, longField |-> longField,
     buffer |-> 1]

\* The file parts the clients send: each a one-page document.
GateFiles ==
    { GateFile(APdf, "application/pdf", 1, FALSE),
      GateFile(UpperPdf, "application/octet-stream", 1, FALSE),
      GateFile(ATxt, "application/x-pdf", 1, FALSE),
      GateFile(ATxt, "Application/PDF", 1, FALSE),
      GateFile(APdf, "text/plain", 1, FALSE),
      GateFile(ATxt, "application/octet-stream", 1, FALSE),
      GateFile(ATxt, "text/plain", 1, FALSE),
      GateFile(ATxt, "", 1, FALSE),
      GateFile(APdf, "application/pdf", FileSizeLimit, FALSE),
      GateFile(APdf, "application/pdf", FileSizeLimit + 1, FALSE),
      GateFile(ATxt, "text/plain", FileSizeLimit + 1, FALSE),
      GateFile(APdf, "application/pdf", 1, TRUE) }

\* The bodies of the upload requests: no multipart body, or one or two parts.
GateBodies ==
    {<<>>} \cup {<<f>> : f \in GateFiles}
           \cup {<<f, g>> : f \in {GateFile(APdf, "text/plain", 1, FALSE),
                                   GateFile(ATxt, "application/x-pdf", 1, FALSE)},
                            g \in GateFiles}

\* What a request carried, the middlewares and the controller it ran, and the
\* error upload.any() handed to next(), if any.
Passage(route, header, files, ran, err) ==
    [route |-> route, header |-> header, files |-> files, ran |-> ran, err |-> err]

\* What a middleware that ends the request leaves of upload request r.
GateAnswer(r, response) ==
    /\ res' = [res EXCEPT ![r] = Append(@, response)]
    /\ pc' = [pc EXCEPT ![r] = "done"]
    /\ UNCHANGED <<req, loc, budget>>

\* A run of the gate serves either upload requests or read and delete
\* requests over records stored before: the read and delete requests arrive
\* while no upload request has, and an upload request arrives at the server
\* as it started.
Quiet == \A r \in clients : pc[r] = "idle"

Untouched == nextId = 1 /\ call = NoCall

\* The ids the read and delete requests of a gate run name: two records are
\* stored before them, the third id is of no record.
GateIds == {1, 2, 3}

\* A record stored before the read and delete requests arrive.
GateSeed ==
    /\ Quiet
    /\ nextId \in GateIds \ {3}
    /\ StoreCreate

\* POST /upload: auth, upload.any(), uploadDocument.
GatePost(r) ==
    /\ pc[r] = "idle"
    /\ Untouched
    /\ r \in clients
    /\ \E header \in Headers, files \in GateBodies :
        IF ~Auth(header).next
        THEN /\ GateAnswer(r, [status |-> 401, message |-> Auth(header).message,
                               count |-> 0, documents |-> <<>>])
             /\ gate' = [gate EXCEPT ![r] = Passage("upload", header, files, <<"auth">>, <<>>)]
        ELSE IF MulterAny(files) # <<>>
             THEN /\ GateAnswer(r, ErrorHandler(MulterAny(files)[1]))
                  /\ gate' = [gate EXCEPT ![r] =
                                Passage("upload", header, files, <<"auth", "upload.any">>,
                                        MulterAny(files))]
             ELSE /\ Admit(r, Auth(header).user, [files |-> <<files>>, file |-> <<>>])
                  /\ gate' = [gate EXCEPT ![r] =
                                Passage("upload", header, files,
                                        <<"auth", "upload.any", "uploadDocument">>, <<>>)]
    /\ UNCHANGED <<storeVars, hist, origin, runVars, textVars, call, del>>

\* What auth's 401 leaves of a read or delete request.
GateDenied(route, header, x) ==
    /\ call' = [op |-> route, user |-> "", id |-> x, before |-> db, after |-> db,
                documents |-> <<>>,
                res |-> [status |-> 401, message |-> Auth(header).message,
                         document |-> <<>>]]
    /\ gate' = [gate EXCEPT ![0] = Passage(route, header, <<>>, <<"auth">>, <<>>)]
    /\ UNCHANGED <<db, cloud>>

GateAdmitted(route, header, controller) ==
    gate' = [gate EXCEPT ![0] = Passage(route, header, <<>>, <<"auth", controller>>, <<>>)]

\* GET /: auth, getDocuments.
GateList ==
    /\ Quiet
    /\ \E header \in Headers, rejects \in BOOLEAN :
        IF ~Auth(header).next
        THEN GateDenied("list", header, 0)
        ELSE /\ GetDocumentsAs(Auth(header).user, rejects)
             /\ GateAdmitted("list", header, "getDocuments")
    /\ UNCHANGED <<nextId, nextUrl, reqVars, textVars, del>>

\* GET /:id: auth, getDocumentById.
GateGet ==
    /\ Quiet
    /\ \E header \in Headers, x \in GateIds, rejects \in BOOLEAN :
        IF ~Auth(header).next
        THEN GateDenied("get", header, x)
        ELSE /\ GetDocumentByIdAs(Auth(header).user, x, rejects)
             /\ GateAdmitted("get", header, "getDocumentById")
    /\ UNCHANGED <<nextId, nextUrl, reqVars, textVars, del>>

\* DELETE /:id: auth, deleteDocument.
GateDelete ==
    /\ Quiet
    /\ \E header \in Headers, x \in GateIds, rejects \in BOOLEAN :
        IF ~Auth(header).next
        THEN GateDenied("delete", header, x)
        ELSE /\ DeleteDocumentAs(Auth(header).user, x, rejects)
             /\ GateAdmitted("delete", header, "deleteDocument")
    /\ UNCHANGED <<nextId, nextUrl, reqVars, textVars, del>>

NextGate ==
    \/ \E r \in Reqs :
        \/ GatePost(r)
        \/ PageRenderCall(r)
        \/ PageRenderPush(r)
        \/ ParseResolve(r)
        \/ ParseReject(r)
        \/ UploadCallback(r)
        \/ CreateDone(r)
    \/ GateSeed
    \/ GateList
    \/ GateGet
    \/ GateDelete

SpecGate == Init /\ [][NextGate]_vars

\* -------------------------------------------------------------- SpecDel
\* deleteDocument calls in progress side by side: a call is entered, its
\* Document.findOneAndDelete settles, its response is sent.

\* The ids of the records stored for the delete requests, which name them.
DelIds == {1, 2}

\* A record stored before or between the delete requests.
DelCreate ==
    /\ nextId \in DelIds
    /\ StoreCreate

\* deleteDocument is entered for the user u and the id x (the slot r is free:
\* no call yet, or the last one answered); seen is the record the query would
\* match at this moment, gone says that the id's record was deleted before.
DeleteEnter(r) ==
    /\ del[r].pc \in {"idle", "done"}
    /\ \E u \in Users, x \in DelIds :
        del' = [del EXCEPT ![r] = [NoDel EXCEPT !.pc = "query", !.user = u, !.id = x,
                                                !.seen = FindOne(db, x, u),
                                                !.gone = /\ x < nextId
                                                         /\ \A d \in db : d._id # x]]
    /\ UNCHANGED <<storeVars, reqVars, textVars, call, gate>>

\* As DeleteQuery, had the handler looked the record up when it was entered
\* and removed it later: findOne, then deleteOne.
DeleteQuery_findThenDelete(r) ==
    /\ del[r].pc = "query"
    /\ \E rejects \in BOOLEAN :
        /\ db' = IF rejects THEN db ELSE FindOneAndDelete(db, del[r].id, del[r].user).store
        /\ cloud' = cloud
        /\ del' = [del EXCEPT ![r].pc = "respond",
                              ![r].rejected = rejects,
                              ![r].document = IF rejects THEN <<>> ELSE del[r].seen]
    /\ UNCHANGED <<nextId, nextUrl, reqVars, textVars, call, gate>>

\* await Document.findOneAndDelete({ _id, owner }) settles: the store finds
\* and removes the record in one operation, or the query rejects.
DeleteQuery(r) ==
    /\ del[r].pc = "query"
    /\ \E rejects \in BOOLEAN :
        LET found == FindOneAndDelete(db, del[r].id, del[r].user) IN
        /\ db' = IF rejects THEN db ELSE found.store
        /\ cloud' = IF rejects THEN cloud ELSE CloudAfterDelete(found.document)
        /\ del' = [del EXCEPT ![r].pc = "respond",
                              ![r].rejected = rejects,
                              ![r].document = IF rejects THEN <<>> ELSE found.document]
    /\ UNCHANGED <<nextId, nextUrl, reqVars, textVars, call, gate>>

\* The response of a deleteDocument call whose query has settled: lines
\* 271-281.
DeleteRespond(r) ==
    /\ del[r].pc = "respond"
    /\ del' = [del EXCEPT ![r].pc = "done",
                          ![r].res = IF del[r].rejected THEN CatchResponse(StoreError)
                                     ELSE IF del[r].document = <<>> THEN NotFound
                                     ELSE [status |-> 200,
                                           message |-> "Document deleted successfully",
                                           document |-> <<>>]]
    /\ UNCHANGED <<storeVars, reqVars, textVars, call, gate>>

NextDel ==
    \/ DelCreate
    \/ \E r \in Reqs :
        \/ DeleteEnter(r)
        \/ DeleteQuery(r)
        \/ DeleteRespond(r)

SpecDel == Init /\ [][NextDel]_vars

\* ------------------------------------------------- claims on the page text
\* The page text as the layout rule words it: the first item's string, then
\* every following item's string, after a newline exactly when its vertical
\* coordinate differs from that of the item before it.
RECURSIVE JoinedFrom(_, _)
JoinedFrom(items, i) ==
    IF i > Len(items) THEN <<>>
    ELSE (IF i > 1 /\ items[i].y # items[i - 1].y THEN <<NL>> ELSE <<>>)
         \o items[i].str \o JoinedFrom(items, i + 1)

ExpectedPageText(items) == JoinedFrom(items, 1)

\* C9: for every sequence of positioned text items and every value of their
\* vertical coordinates, 0 included, the raw page text the callback builds is
\* the first item's string followed by each later item's string, preceded by a
\* newline exactly when its coordinate differs from the preceding item's.
C9_NewlineExactlyOnYChange ==
    (tphase \in {"raw", "clean"} /\ titems # <<>>) => traw = ExpectedPageText(titems)

\* The reference of C10, in its own words: the kept characters, the white space
\* (space and newline) and the three passes.
RefKept(c) == c \in (32 .. 126) \cup {10}
RefWhite(c) == c \in {32, 10}

RefDelete(s) == SelectSeq(s, RefKept)

\* Position i of s starts a maximal run of white space.
RefRunStart(s, i) == RefWhite(s[i]) /\ (i = 1 \/ ~RefWhite(s[i - 1]))

RECURSIVE RefCollapsePrefix(_, _)
RefCollapsePrefix(s, n) ==
    IF n = 0 THEN <<>>
    ELSE RefCollapsePrefix(s, n - 1)
         \o (IF ~RefWhite(s[n]) THEN <<s[n]>>
             ELSE IF RefRunStart(s, n) THEN <<32>> ELSE <<>>)

RefCollapse(s) == RefCollapsePrefix(s, Len(s))

RefStrip(s) ==
    LET black == {i \in 1 .. Len(s) : ~RefWhite(s[i])}
    IN  IF black = {} THEN <<>>
        ELSE SubSeq(s, CHOOSE i \in black : \A j \in black : i <= j,
                       CHOOSE i \in black : \A j \in black : i >= j)

RefClean(s) == RefStrip(RefCollapse(RefDelete(s)))

\* C10: cleanText of any string is the reference: delete every character that
\* is neither printable ASCII nor newline, replace every maximal run of white
\* space by one space, strip leading and trailing white space.
C10_CleanTextIsReference ==
    tphase = "clean" => tcontent = RefClean(traw)

\* A string with a deleted character, a run of white space inside and white
\* space at the end has been cleaned.
C10_Witness ==
    /\ tphase = "clean"
    /\ traw = <<97, 127, 10, 32>>
    /\ tcontent = <<97>>

\* C11: cleanText is idempotent: for every string over an alphabet with
\* printable characters, spaces, newlines, tabs, control and non-ASCII
\* characters, cleaning the cleaned text once more returns the cleaned text.
C11_CleanTextIdempotent ==
    tphase = "again" => (tcontent = cleanText(traw) /\ tagain = tcontent)

\* A string with a tab and a newline between printable characters, which the
\* first cleaning changes, has been cleaned twice.
C11_Witness ==
    /\ tphase = "again"
    /\ traw = <<9, 97, 10, 126>>
    /\ tcontent = <<97, 32, 126>>
    /\ tagain = <<97, 32, 126>>

\* A text as cleanText is to leave it: printable ASCII only, no newline, no
\* two white-space characters in a row, none at either end.
SingleLineSingleSpaced(s) ==
    /\ \A i \in 1 .. Len(s) : s[i] >= 32 /\ s[i] <= 126
    /\ \A i \in 1 .. Len(s) : s[i] # 10
    /\ \A i \in 1 .. (Len(s) - 1) : ~(s[i] \in {9, 10, 13, 32} /\ s[i + 1] \in {9, 10, 13, 32})
    /\ s # <<>> => (s[1] \notin {9, 10, 13, 32} /\ s[Len(s)] \notin {9, 10, 13, 32})

\* C12: for every input string the output of cleanText, and so the content of
\* every page entry of every stored record, has only printable ASCII
\* characters, no newline, no two consecutive white-space characters and no
\* leading or trailing white space.
C12_CleanOutputSingleLineSingleSpaced ==
    /\ tphase \in {"clean", "again"} => SingleLineSingleSpaced(tcontent)
    /\ \A d \in db : \A i \in 1 .. Len(d.extractedText.pages) :
            SingleLineSingleSpaced(d.extractedText.pages[i].content)

\* A string with a newline, a run of white space, white space at the end and a
\* control character has been cleaned to a text that is not empty.
C12_Witness ==
    /\ tphase = "clean"
    /\ traw = <<97, 10, 32, 127>>
    /\ tcontent = <<97>>

\* --------------------------------------------- claims on uploadDocument
Done(r) == pc[r] = "done"
LastEvent(r) == hist[r][Len(hist[r])]

\* The files the request handed to the loop.
SubmittedFiles(r) ==
    IF req[r].files # <<>> THEN req[r].files[1]
    ELSE IF req[r].file # <<>> THEN <<req[r].file[1]>> ELSE <<>>

\* The records in the store that came from file k of request r.
RecordsFrom(r, k) == {d \in db : origin[d._id].req = r /\ origin[d._id].k = k}

\* The file a record came from.
SourceFile(d) == SubmittedFiles(origin[d._id].req)[origin[d._id].k]

\* The place of the first event ev of file k in the history of r (0: none).
FirstAt(r, ev, k) ==
    LET at == {i \in 1 .. Len(hist[r]) : hist[r][i].ev = ev /\ hist[r][i].k = k}
    IN  IF at = {} THEN 0 ELSE CHOOSE i \in at : \A j \in at : i <= j

\* C1: if the upload of file k fails, then when the call has ended the record
\* store holds the records this call created for files 1..k-1 and holds no
\* record for file k.
C1_FailedUploadKeepsEarlierRecords ==
    \A r \in Reqs :
        (Done(r) /\ hist[r] # <<>> /\ LastEvent(r).ev = "upload_rejected") =>
            LET k == LastEvent(r).k IN
            /\ \A j \in 1 .. (k - 1) :
                \E d \in RecordsFrom(r, j) :
                    d.originalName = SubmittedFiles(r)[j].originalname
            /\ \A d \in RecordsOf(r) : origin[d._id].k < k

\* The upload of the second file has failed after the first file's record was
\* stored.
C1_Witness ==
    \E r \in Reqs :
        /\ Done(r) /\ hist[r] # <<>>
        /\ LastEvent(r).ev = "upload_rejected" /\ LastEvent(r).k = 2
        /\ RecordsFrom(r, 1) # {}

\* C2: every record in the store was stored only after the extraction and the
\* remote upload of its own file had both completed: its history shows both
\* before its creation, no failed extraction or upload of that file, and its
\* storagePath is the object stored for that file.
C2_RecordOnlyAfterExtractionAndUpload ==
    \A d \in db :
        LET r == origin[d._id].req
            k == origin[d._id].k
        IN  /\ FirstAt(r, "extracted", k) > 0
            /\ FirstAt(r, "upload_resolved", k) > FirstAt(r, "extracted", k)
            /\ FirstAt(r, "created", k) > FirstAt(r, "upload_resolved", k)
            /\ FirstAt(r, "extract_failed", k) = 0
            /\ FirstAt(r, "upload_rejected", k) = 0
            /\ \E o \in cloud :
                /\ o.url = d.storagePath
                /\ o.by = <<r, k>>
                /\ o.bytes = SourceFile(d).buffer

\* Two files of one request have been stored.
C2_Witness ==
    \E r \in Reqs : RecordsFrom(r, 1) # {} /\ RecordsFrom(r, 2) # {}

\* C3: for every (error, result) the upload callback delivers, a record is
\* created for the file only when no error was reported, and whenever the
\* callback reported an error no record of that upload exists.
C3_NoRecordWhenCallbackReportsError ==
    \A r \in Reqs : \A i \in 1 .. Len(hist[r]) :
        (hist[r][i].ev \in {"upload_resolved", "upload_rejected"} /\ hist[r][i].err)
            => RecordsFrom(r, hist[r][i].k) = {}

\* C4: if the extraction of file k fails, no record of file k exists, no
\* upload of file k was made, the pages collected so far are in no record, and
\* the call has ended with an error response.
C4_FailedExtractionLeavesNothing ==
    \A r \in Reqs :
        (Done(r) /\ hist[r] # <<>> /\ LastEvent(r).ev = "extract_failed") =>
            LET k == LastEvent(r).k IN
            /\ RecordsFrom(r, k) = {}
            /\ FirstAt(r, "upload_resolved", k) = 0
            /\ FirstAt(r, "upload_rejected", k) = 0
            /\ \A o \in cloud : o.by # <<r, k>>
            /\ Len(res[r]) = 1
            /\ res[r][1].status = 500
            /\ res[r][1].documents = <<>>

\* The extraction of a file has failed after a page of it had been collected.
C4_Witness ==
    \E r \in Reqs :
        /\ Done(r) /\ hist[r] # <<>>
        /\ LastEvent(r).ev = "extract_failed"
        /\ loc[r].pages # <<>>

\* Neither req.files nor req.file yields an entry.
ZeroFiles(r) == req[r].files \in {<<>>, << <<>> >>} /\ req[r].file = <<>>

\* C5: a call with zero files is answered 400 'No file uploaded', and nothing
\* is extracted, uploaded or stored.
C5_ZeroFilesIsClientError ==
    \A r \in Reqs :
        (pc[r] # "idle" /\ ZeroFiles(r)) =>
            /\ Done(r)
            /\ res[r] = << [status |-> 400, message |-> "No file uploaded",
                            count |-> 0, documents |-> <<>>] >>
            /\ hist[r] = <<>>
            /\ loc[r] = NoLoc
            /\ RecordsOf(r) = {}
            /\ \A o \in cloud : o.by[1] # r

\* A request with an empty req.files array has been answered.
C5_Witness ==
    \E r \in Reqs : Done(r) /\ req[r].files = << <<>> >> /\ res[r] # <<>>

\* Every submitted file of r has been stored.
AllProcessed(r) ==
    /\ SubmittedFiles(r) # <<>>
    /\ \A i \in 1 .. Len(SubmittedFiles(r)) : FirstAt(r, "created", i) > 0

\* C6: when every one of the N files was processed, the response is 201 with
\* count N and N documents, the i-th of them the record created from the i-th
\* file.
C6_SuccessListsRecordsInOrder ==
    \A r \in Reqs :
        AllProcessed(r) =>
            LET n == Len(SubmittedFiles(r)) IN
            /\ Done(r)
            /\ Len(res[r]) = 1
            /\ res[r][1].status = 201
            /\ res[r][1].count = n
            /\ Len(res[r][1].documents) = n
            /\ \A i \in 1 .. n :
                LET d == res[r][1].documents[i] IN
                /\ d \in RecordsFrom(r, i)
                /\ d.originalName = SubmittedFiles(r)[i].originalname

\* Two different files have been processed in one call.
C6_Witness ==
    \E r \in Reqs :
        /\ AllProcessed(r)
        /\ Len(SubmittedFiles(r)) = 2
        /\ SubmittedFiles(r)[1] # SubmittedFiles(r)[2]

\* No external call of r has failed.
NoFailure(r) ==
    \A i \in 1 .. Len(hist[r]) :
        hist[r][i].ev \notin {"extract_failed", "upload_rejected", "create_failed"}

\* C7: the record of a PDF of N >= 0 pages has exactly N page entries,
\* numbered 1..N in sequence order; a call whose PDFs have no page and whose
\* steps do not fail ends in success with empty page sequences.
C7_PagesNumberedOneToN ==
    /\ \A d \in db :
        LET n == NumPages(SourceFile(d).buffer)
            pages == d.extractedText.pages
        IN  /\ Len(pages) = n
            /\ \A i \in 1 .. n : pages[i].page = i
    /\ \A r \in Reqs :
        (/\ Done(r) /\ NoFailure(r) /\ SubmittedFiles(r) # <<>>
         /\ \A i \in 1 .. Len(SubmittedFiles(r)) : NumPages(SubmittedFiles(r)[i].buffer) = 0)
        => /\ res[r][1].status = 201
           /\ \A i \in 1 .. Len(SubmittedFiles(r)) :
                res[r][1].documents[i].extractedText.pages = <<>>

\* A two-page PDF and a zero-page PDF have both been stored.
C7_Witness ==
    /\ \E d \in db : Len(d.extractedText.pages) = 2
    /\ \E d \in db : NumPages(SourceFile(d).buffer) = 0 /\ d.extractedText.pages = <<>>
    /\ \E r \in Reqs : Done(r) /\ res[r] # <<>> /\ res[r][1].status = 201

\* C8 as claimed: every record with status 'processed' has a non-empty
\* extractedText.pages, whatever the page count of its PDF.
C8_ProcessedHasPages ==
    \A d \in db : d.status = "processed" => d.extractedText.pages # <<>>

\* C8 as amended: a record with status 'processed' has a non-empty
\* extractedText.pages exactly when its PDF has at least one page (the record
\* of a zero-page PDF is 'processed' with no page entry).
C8_ProcessedHasPagesIffPdfHasPages ==
    \A d \in db :
        d.status = "processed" =>
            (d.extractedText.pages # <<>> <=> NumPages(SourceFile(d).buffer) >= 1)

\* A processed record without pages and one with pages are in the store.
C8_Witness ==
    /\ \E d \in db : d.status = "processed" /\ d.extractedText.pages = <<>>
    /\ \E d \in db : d.status = "processed" /\ d.extractedText.pages # <<>>

\* The events of a failed step, and the errors the steps reject with.
FailureEvents == {"extract_failed", "upload_rejected", "create_failed"}
Errors == {ExtractionError, UploadError, TypeError, PersistenceError, ValidationError}

\* C15: every failure of extraction, upload or persistence, whatever value the
\* failing step rejects with, ends the call with exactly one response, which is
\* an error response of the centralized error handler and not a success.
C15_EveryFailureGetsHandlerResponse ==
    \A r \in Reqs : \A i \in 1 .. Len(hist[r]) :
        hist[r][i].ev \in FailureEvents =>
            /\ Done(r)
            /\ i = Len(hist[r])
            /\ Len(res[r]) = 1
            /\ res[r][1].status # 201
            /\ \E e \in Errors : res[r][1] = ErrorHandler(e)

\* C16: once a step has failed for file k of a call, nothing more happens in
\* that call: no extraction, upload or record creation is started for the
\* files k+1..N, and the call sends no success response.
C16_FirstErrorAborts ==
    \A r \in Reqs : \A i \in 1 .. Len(hist[r]) :
        hist[r][i].ev \in FailureEvents =>
            LET k == hist[r][i].k IN
            /\ i = Len(hist[r])
            /\ Done(r)
            /\ loc[r].i = k
            /\ \A j \in 1 .. Len(hist[r]) : hist[r][j].k <= k
            /\ \A o \in cloud : o.by[1] = r => o.by[2] <= k
            /\ \A d \in RecordsOf(r) : origin[d._id].k <= k
            /\ \A n \in 1 .. Len(res[r]) : res[r][n].status # 201

\* A step of the first of two files has failed.
C16_Witness ==
    \E r \in Reqs :
        /\ Done(r) /\ hist[r] # <<>>
        /\ LastEvent(r).ev \in FailureEvents /\ LastEvent(r).k = 1
        /\ Len(SubmittedFiles(r)) = 2
        /\ res[r] # <<>>

\* The events of r follow one another as the steps of one file at a time:
\* extraction, upload, creation, then the extraction of the next file.
StepOrder(r) ==
    \A n \in 1 .. Len(hist[r]) :
        LET e == hist[r][n] IN
        IF n = 1
        THEN e.k = 1 /\ e.ev \in {"extracted", "extract_failed"}
        ELSE LET p == hist[r][n - 1] IN
             \/ /\ p.ev = "extracted" /\ e.k = p.k
                /\ e.ev \in {"upload_resolved", "upload_rejected"}
             \/ /\ p.ev = "upload_resolved" /\ e.k = p.k
                /\ e.ev \in {"created", "create_failed"}
             \/ /\ p.ev = "created" /\ e.k = p.k + 1
                /\ e.ev \in {"extracted", "extract_failed"}

\* The one file of r in flight is file loc[r].i, at the step pc[r] names, and
\* every file before it has its record.
OneInFlight(r) ==
    pc[r] \in {"parse", "upload", "create"} =>
        LET i == loc[r].i IN
        /\ i \in 1 .. Len(SubmittedFiles(r))
        /\ \A j \in 1 .. (i - 1) : RecordsFrom(r, j) # {}
        /\ \A j \in 1 .. Len(hist[r]) : hist[r][j].k <= i
        /\ \A o \in cloud : o.by[1] = r => o.by[2] <= i
        /\ pc[r] = "parse" =>
              /\ IF i = 1 THEN hist[r] = <<>>
                 ELSE LastEvent(r) = Event("created", i - 1, FALSE)
              /\ \A o \in cloud : o.by[1] = r => o.by[2] < i
        /\ pc[r] = "upload" =>
              /\ LastEvent(r) = Event("extracted", i, FALSE)
              /\ loc[r].pending = {}
              /\ Len(loc[r].pages) = NumPages(SubmittedFiles(r)[i].buffer)
              /\ \A o \in cloud : o.by[1] = r => o.by[2] < i
        /\ pc[r] = "create" =>
              /\ LastEvent(r).ev = "upload_resolved" /\ LastEvent(r).k = i
              /\ RecordsFrom(r, i) = {}

\* File k of r is the k-th file submitted: its object and its record are made
\* from it.
SubmissionOrder(r) ==
    /\ \A o \in cloud : o.by[1] = r => o.bytes = SubmittedFiles(r)[o.by[2]].buffer
    /\ \A d \in RecordsOf(r) : d.originalName = SourceFile(d).originalname

\* C17: within one call the files are processed one at a time in submission
\* order: for each file extraction, then upload, then creation of the record,
\* the extraction of file i+1 starting only after the record of file i is
\* stored, and never two files of the call in flight together.
C17_FilesStrictlySequential ==
    \A r \in Reqs : StepOrder(r) /\ OneInFlight(r) /\ SubmissionOrder(r)

\* The extraction of the second file is under way, a page callback pending,
\* after the record of a different first file was stored.
C17_Witness ==
    \E r \in Reqs :
        /\ pc[r] = "parse" /\ loc[r].i = 2 /\ loc[r].pending # {}
        /\ RecordsFrom(r, 1) # {}
        /\ SubmittedFiles(r)[1] # SubmittedFiles(r)[2]

\* How many events of the kinds evs the history of r has for file k.
Attempts(r, evs, k) ==
    Cardinality({i \in 1 .. Len(hist[r]) : hist[r][i].ev \in evs /\ hist[r][i].k = k})

\* C18: there is no retry: within one call each file is extracted at most
\* once, uploaded at most once and stored at most once (one object and one
\* record at most, each page rendered once), and a failed step is the last
\* thing the call does before its one response.
C18_NoRetry ==
    \A r \in Reqs :
        /\ \A k \in 1 .. Len(SubmittedFiles(r)) :
            /\ Attempts(r, {"extracted", "extract_failed"}, k) <= 1
            /\ Attempts(r, {"upload_resolved", "upload_rejected"}, k) <= 1
            /\ Attempts(r, {"created", "create_failed"}, k) <= 1
            /\ Cardinality({o \in cloud : o.by = <<r, k>>}) <= 1
            /\ Cardinality(RecordsFrom(r, k)) <= 1
        /\ pc[r] = "parse" => loc[r].called <= NumPages(CurFile(r).buffer)
        /\ \A i \in 1 .. Len(hist[r]) :
            hist[r][i].ev \in FailureEvents =>
                i = Len(hist[r]) /\ Done(r) /\ Len(res[r]) = 1

\* The upload of the second file was rejected once, after the first file went
\* through each step once, and the call has answered.
C18_Witness ==
    \E r \in Reqs :
        /\ Done(r) /\ Len(res[r]) = 1
        /\ Attempts(r, {"upload_rejected"}, 2) = 1
        /\ Attempts(r, {"extracted"}, 1) = 1
        /\ Attempts(r, {"upload_resolved"}, 1) = 1
        /\ Attempts(r, {"created"}, 1) = 1

\* What a call holds for itself: its request, its locals, its responses.
CallState(r) == <<pc[r], req[r], loc[r], res[r], hist[r]>>

\* The response of a call that succeeded lists exactly the records made from
\* its files, in the order of its files.
ListsOwnRecords(r) ==
    (Done(r) /\ res[r] # <<>> /\ res[r][1].status = 201) =>
        LET docs == res[r][1].documents IN
        /\ Len(res[r]) = 1
        /\ Len(docs) = Len(SubmittedFiles(r))
        /\ res[r][1].count = Len(docs)
        /\ \A i \in 1 .. Len(docs) : docs[i] \in RecordsFrom(r, i)
        /\ {docs[i] : i \in 1 .. Len(docs)} = RecordsOf(r)

\* A record is owned by the caller of its call and holds, page entry by page
\* entry, the cleaned text of a page of its own file, each page once.
OwnOwnerOwnText(d) ==
    LET from == origin[d._id]
        pages == d.extractedText.pages
        n == SourceFile(d).buffer
    IN  /\ d.owner = req[from.req].user
        /\ d.originalName = SourceFile(d).originalname
        /\ Len(pages) = NumPages(n)
        /\ Len(from.phys) = Len(pages)
        /\ {from.phys[i] : i \in 1 .. Len(pages)} = 1 .. NumPages(n)
        /\ \A i \in 1 .. Len(pages) :
            pages[i].content = cleanText(PageText(PageItems(n, from.phys[i])))

\* C19: under every interleaving of two concurrent calls, of one owner or
\* of two, each call's response lists exactly the records made from its own
\* files in its own order, each record is owned by the caller of its call and
\* its pages hold only text of its own file; and a step of one call leaves
\* what the other call holds for itself as it was: the calls share the stores
\* only.
C19_ConcurrentCallsIndependent ==
    /\ [](/\ \A r \in Reqs : ListsOwnRecords(r)
          /\ \A d \in db : OwnOwnerOwnText(d))
    /\ [][\A r, q \in Reqs :
            (r # q /\ CallState(r)' # CallState(r)) => CallState(q)' = CallState(q)]_vars

\* Two calls of one owner have both succeeded, their records created in turn:
\* the two-file call made the first and the third record, the other call the
\* second.
C19_Witness ==
    \E r, q \in Reqs :
        /\ r # q /\ req[r].user = req[q].user
        /\ Done(r) /\ Done(q)
        /\ res[r] # <<>> /\ res[r][1].status = 201
        /\ res[q] # <<>> /\ res[q][1].status = 201
        /\ {d._id : d \in RecordsOf(r)} = {1, 3}
        /\ {d._id : d \in RecordsOf(q)} = {2}

\* C20: in every stored record each page entry's number is the physical
\* position, in the PDF, of the page whose text the entry holds, in whatever
\* order the page callbacks of the file reached their push.
C20_PageNumberIsPhysicalPosition ==
    \A d \in db :
        \A i \in 1 .. Len(d.extractedText.pages) :
            d.extractedText.pages[i].page = origin[d._id].phys[i]

\* ------------------------------------- claims on the owner-scoped calls
\* The record with the id the last call asked for, in the store it met.
Asked == {d \in call.before : d._id = call.id}

\* The last call was answered by the query, not by the catch block.
Answered == call.op # "" /\ call.res.status # 500

\* The last call asked for a record of another owner.
ForeignCall == \E d \in Asked : d.owner # call.user

\* What the handler of the last call answers on a given store.
ResponseOn(store) ==
    IF call.op = "get" THEN GetResponse(store, call.id, call.user)
    ELSE DeleteResponse(store, call.id, call.user)

\* C13: a read or a delete by an authenticated requester of a record id that
\* exists under another owner is answered as it is on the store without any
\* record of that id: 404 'Document not found', and no forbidden outcome.
C13_ForeignIdLooksMissing ==
    (Answered /\ ForeignCall) =>
        /\ call.res = ResponseOn(call.before \ Asked)
        /\ call.res = [status |-> 404, message |-> "Document not found",
                        document |-> <<>>]
        /\ call.res.status \notin {401, 403}

\* A read of a record of another owner has been answered.
C13_Witness ==
    /\ call.op = "get" /\ Answered /\ ForeignCall
    /\ call.res.status = 404

\* C14: deleteDocument removes a record only when its id is the requested id
\* and its owner is the requester; a delete by a requester who is not the
\* owner leaves the store as it was: the record is still there and its owner
\* still reads it.
C14_DeleteOnlyOwnRecord ==
    call.op = "delete" =>
        /\ \A d \in call.before \ call.after : d._id = call.id /\ d.owner = call.user
        /\ call.after \subseteq call.before
        /\ ForeignCall =>
            /\ call.after = call.before
            /\ \A d \in Asked :
                /\ d \in call.after
                /\ GetResponse(call.after, d._id, d.owner)
                      = [status |-> 200, message |-> "", document |-> <<d>>]

\* A delete of a record of another owner has been answered while the store
\* held a second record.
C14_Witness ==
    /\ call.op = "delete" /\ Answered /\ ForeignCall
    /\ Cardinality(call.before) = 2
    /\ call.after = call.before

\* ---------------------------------------------- claims on the record store
\* C21: no step changes a record that stays in the store (its owner,
\* storagePath, status and extractedText are those of its creation); the
\* store changes only by the creation of a record with a fresh id or by the
\* removal of a record in deleteDocument; getDocuments and getDocumentById
\* leave the store as it is.
C21_RecordsImmutable ==
    [][/\ \A d \in db : \A e \in db' : e._id = d._id => e = d
       /\ db' # db =>
            \/ \E e \in db' : /\ db' = db \cup {e}
                                /\ e._id = nextId /\ nextId' = nextId + 1
                                /\ \A d \in db : d._id < e._id
            \/ \E d \in db : db' = db \ {d} /\ call'.op = "delete"
       /\ (call' # call /\ call'.op \in {"get", "list"}) => db' = db]_vars

\* A delete has removed a record while another record stayed in the store.
C21_Witness ==
    /\ call.op = "delete" /\ call.res.status = 200
    /\ call.before # call.after
    /\ call.after # {}
    /\ call.after \subseteq db

\* C23: getDocuments returns all and only the records of the requester, each
\* once, the most recently created first, and no record of another owner.
C23_ListsOwnRecordsNewestFirst ==
    (call.op = "list" /\ call.res.status = 200) =>
        LET docs == call.documents IN
        /\ {docs[i] : i \in 1 .. Len(docs)} = {d \in call.before : d.owner = call.user}
        /\ \A i, j \in 1 .. Len(docs) : i < j => docs[i].createdAt > docs[j].createdAt
        /\ \A i \in 1 .. Len(docs) : docs[i].owner = call.user

\* A requester with two records has listed them, the later one first.
C23_Witness ==
    /\ call.op = "list" /\ call.res.status = 200
    /\ Len(call.documents) = 2
    /\ call.documents[1]._id = 2 /\ call.documents[2]._id = 1

\* C24: deleteDocument removes the record and nothing of the object store:
\* the step that removes a record leaves the object store as it was, and the
\* object the removed record's storagePath names is still there.
C24_DeleteKeepsRemoteObject ==
    [][\A d \in db :
         (\A e \in db' : e._id # d._id) =>
            /\ cloud' = cloud
            /\ \E o \in cloud' : o.url = d.storagePath]_vars

\* A record has been deleted and the object of its storagePath is in the
\* object store.
C24_Witness ==
    /\ call.op = "delete" /\ call.res.status = 200
    /\ \E d \in call.before \ call.after :
        /\ d \notin db
        /\ \E o \in cloud : o.url = d.storagePath

\* --------------------------------------------- claims on the middleware chain

\* The header is 'Bearer <token>' with a token in it.
HasBearerToken(header) == header.head = "Bearer " /\ header.tail # ""

\* The tokens the server signed and that have not expired, and their subjects.
ValidTokens == {"tokU1", "tokU2"}
SubjectOf(token) == IF token = "tokU1" THEN "U1" ELSE "U2"

\* The message of the 401 a header is to be answered with, <<>> for a header
\* that is to pass.
DeniedMessage(header) ==
    IF ~HasBearerToken(header) THEN <<"Authentication required">>
    ELSE IF header.tail \notin ValidTokens THEN <<"Invalid or expired token">>
         ELSE <<>>

\* The request kept under i arrives in this step.
Arrives(i) == gate'[i] # gate[i]

\* The request kept under i is answered in this step with auth's 401 and
\* nothing else of it has happened.
Answered401(i, message) ==
    IF i = 0
    THEN /\ call'.op = gate'[0].route
         /\ call'.res = [status |-> 401, message |-> message, document |-> <<>>]
         /\ call'.documents = <<>>
    ELSE /\ res'[i] = <<[status |-> 401, message |-> message, count |-> 0,
                         documents |-> <<>>]>>
         /\ pc'[i] = "done"
         /\ hist'[i] = <<>>
         /\ loc'[i] = loc[i]

\* C25: on every document route auth runs first; a request without a Bearer
\* token is answered 401 'Authentication required', one whose token fails
\* verification 401 'Invalid or expired token', and in both cases no further
\* middleware and no controller runs and the record store and the object
\* store are unchanged.
C25_AuthRunsFirst ==
    [][\A i \in Reqs \cup {0} :
        Arrives(i) =>
            /\ gate'[i].route \in {"upload", "list", "get", "delete"}
            /\ Head(gate'[i].ran) = "auth"
            /\ DeniedMessage(gate'[i].header) # <<>> =>
                /\ gate'[i].ran = <<"auth">>
                /\ Answered401(i, DeniedMessage(gate'[i].header)[1])
                /\ storeVars' = storeVars]_vars

\* A delete request with a forged token for a record that exists is answered
\* 401 and the record is still there.
C25_Witness ==
    /\ gate[0].route = "delete"
    /\ gate[0].header = [head |-> "Bearer ", tail |-> "forged"]
    /\ call.res.status = 401
    /\ \E d \in db : d._id = call.id

\* The file is PDF-typed: its MIME type is application/pdf or
\* application/x-pdf, or it is application/octet-stream and the name ends in
\* .pdf, letter case aside.
PdfTyped(file) ==
    \/ MimeToLowerCase(file.mimetype) \in {"application/pdf", "application/x-pdf"}
    \/ /\ MimeToLowerCase(file.mimetype) = "application/octet-stream"
       /\ EndsWith(ToLowerCase(file.originalname), DotPdf)

\* The file parts of the body that upload.any() comes to look at: those up to
\* the first one it turns down for its field name, its type or its size.
RECURSIVE Submitted(_)
Submitted(files) ==
    IF files = <<>> THEN <<>>
    ELSE IF Head(files).longField \/ ~PdfTyped(Head(files))
            \/ Head(files).size > FileSizeLimit
         THEN <<Head(files)>>
         ELSE <<Head(files)>> \o Submitted(Tail(files))

StatusFor(e) ==
    IF e.name = "MulterError"
    THEN IF e.code = "LIMIT_FILE_SIZE" THEN 413 ELSE 400
    ELSE IF e.code = "INVALID_FILE_TYPE" THEN 400 ELSE 500

\* The one response of request r is the handler's answer to the error e.
HandlerAnswered(r, e) ==
    /\ Len(res[r]) = 1
    /\ res[r][1].status = StatusFor(e)
    /\ res[r][1].documents = <<>>
    /\ e.name # "MulterError" /\ e.code = "INVALID_FILE_TYPE"
        => res[r][1].message = "Only PDF files are allowed"

\* C27: every error that reaches the centralized handler gets exactly one
\* response: 413 for a Multer error LIMIT_FILE_SIZE, 400 for any other Multer
\* error, 400 'Only PDF files are allowed' for an invalid file type, 500 for
\* an error of extraction, upload or persistence; and when the upload gate
\* rejects a file of a request, uploadDocument does not run for it.
C27_ErrorHandlerMapsEachError ==
    \A r \in Reqs :
        /\ gate[r].err # <<>> =>
            /\ HandlerAnswered(r, gate[r].err[1])
            /\ gate[r].err[1].name = "MulterError" \/ gate[r].err[1].code = "INVALID_FILE_TYPE"
            /\ "uploadDocument" \notin {gate[r].ran[i] : i \in 1..Len(gate[r].ran)}
            /\ hist[r] = <<>>
            /\ db = {} /\ cloud = {}
        /\ \A i \in 1..Len(hist[r]) :
            hist[r][i].ev \in FailureEvents /\ hist[r][i].err =>
                /\ gate[r].err = <<>>
                /\ \E e \in Errors : HandlerAnswered(r, e)
                /\ res[r][1].status = 500

\* A request of two files, the first accepted and the second over the size
\* limit, is answered 413 and uploadDocument has not run.
C27_Witness ==
    \E r \in Reqs :
        /\ Len(gate[r].files) = 2
        /\ gate[r].err # <<>>
        /\ gate[r].err[1].code = "LIMIT_FILE_SIZE"
        /\ res[r] = <<ErrorHandler(gate[r].err[1])>>
        /\ res[r][1].status = 413
        /\ hist[r] = <<>>

\* C22: every record uploadDocument creates has as owner the subject of the
\* token of the request that created it, status 'processed', fileType 'pdf'
\* and as originalName the file name the client sent; no record has status
\* 'uploaded'.
C22_RecordFieldsFromRequest ==
    \A d \in db :
        /\ d.status = "processed"
        /\ d.status # "uploaded"
        /\ d.fileType = "pdf"
        /\ origin[d._id].req \in Reqs =>
            LET p == gate[origin[d._id].req] IN
            /\ p.route = "upload"
            /\ HasBearerToken(p.header)
            /\ p.header.tail \in ValidTokens
            /\ d.owner = SubjectOf(p.header.tail)
            /\ origin[d._id].k \in 1..Len(p.files)
            /\ d.originalName = p.files[origin[d._id].k].originalname

\* The second file of a request with U2's token has become a record of U2.
C22_Witness ==
    \E d \in db :
        /\ origin[d._id].req \in Reqs
        /\ origin[d._id].k = 2
        /\ gate[origin[d._id].req].header.tail = "tokU2"
        /\ d.owner = "U2"
        /\ d.originalName = gate[origin[d._id].req].files[2].originalname

\* ------------------------------------------ claims on the two stores together

\* The remote objects the upload of file k of request r created.
ObjectsOf(r, k) == {o \in cloud : o.by = <<r, k>>}

\* C30: uploadDocument does not compensate: when record creation fails for
\* file k after its upload succeeded, the remote object of file k stays in the
\* object store and no record refers to it; every record's storagePath names
\* a remote object that exists; the remote objects are never fewer than the
\* records ever created.
C30_NoCompensation ==
    /\ \A r \in Reqs : \A i \in 1..Len(hist[r]) :
        /\ hist[r][i].ev = "create_failed"
        /\ FirstAt(r, "upload_resolved", hist[r][i].k) # 0
        => /\ ObjectsOf(r, hist[r][i].k) # {}
           /\ \A o \in ObjectsOf(r, hist[r][i].k) : \A d \in db : d.storagePath # o.url
    /\ \A d \in db : \E o \in cloud : o.url = d.storagePath
    /\ Cardinality(cloud) >= nextId - 1

\* Record creation has failed for the second file of a request after its
\* upload: two remote objects exist and one record was ever created.
C30_Witness ==
    \E r \in Reqs :
        /\ Done(r)
        /\ hist[r] # <<>>
        /\ LastEvent(r).ev = "create_failed" /\ LastEvent(r).k = 2
        /\ Cardinality(cloud) = 2
        /\ nextId - 1 = 1
        /\ Cardinality(db) = 1

\* ------------------------------------------------- claims on termination

\* The call of request r has ended with the success response after its last
\* file, or with one error response and no file after the failed one begun.
EndedProperly(r) ==
    /\ Len(res[r]) = 1
    /\ IF res[r][1].status = 201
       THEN /\ hist[r] # <<>>
            /\ LastEvent(r) = Event("created", Len(SubmittedFiles(r)), FALSE)
       ELSE \/ SubmittedFiles(r) = <<>>
            \/ /\ hist[r] # <<>>
               /\ LastEvent(r).ev \in FailureEvents
               /\ \A i \in 1..(Len(hist[r]) - 1) : hist[r][i].ev \notin FailureEvents

\* C28: provided every external call eventually returns or fails, every call
\* of uploadDocument eventually sends exactly one response, the 201 after the
\* last file or one error response at the first failure; it never sends two
\* and never ends without one.
C28_ExactlyOneResponseEventually ==
    /\ [](\A r \in Reqs : Len(res[r]) <= 1)
    /\ [](\A r \in Reqs : Done(r) => EndedProperly(r))
    /\ \A r \in Reqs : (pc[r] # "idle") ~> (Done(r) /\ Len(res[r]) = 1)

\* A call of two files has ended, the first stored and the second failed in
\* extraction, with one response.
C28_Witness ==
    \E r \in Reqs :
        /\ Done(r)
        /\ Len(SubmittedFiles(r)) = 2
        /\ hist[r] # <<>>
        /\ LastEvent(r) = Event("extract_failed", 2, TRUE)
        /\ Len(res[r]) = 1
        /\ res[r][1].status = 500

\* ------------------------------------------- claims on concurrent deletes

\* The calls in the slots r and q are two calls of one user for one id, both
\* entered while that user's record of the id was in the store, and the query
\* of each has been answered.
SameRecordTwice(r, q) ==
    /\ r # q
    /\ del[r].pc \in {"respond", "done"} /\ del[q].pc \in {"respond", "done"}
    /\ del[r].id = del[q].id /\ del[r].user = del[q].user
    /\ del[r].seen # <<>> /\ del[q].seen # <<>>
    /\ ~del[r].rejected /\ ~del[q].rejected

\* C29: of two concurrent deleteDocument calls of the owner for one record,
\* however their steps interleave, exactly one is answered 200 'Document
\* deleted successfully' and the other 404, and the record is gone; a delete
\* of an id already deleted is answered 404.
C29_ConcurrentDeletesOneWins ==
    /\ \A r, q \in Reqs :
        SameRecordTwice(r, q) =>
            /\ (del[r].document # <<>>) # (del[q].document # <<>>)
            /\ \A d \in db : d._id # del[r].id
            /\ del[r].pc = "done" /\ del[q].pc = "done" =>
                   {del[r].res, del[q].res} =
                       {[status |-> 200, message |-> "Document deleted successfully",
                         document |-> <<>>],
                        [status |-> 404, message |-> "Document not found",
                         document |-> <<>>]}
    /\ \A r \in Reqs :
        /\ del[r].pc = "done"
        /\ ~del[r].rejected
        /\ del[r].gone
        => del[r].res = [status |-> 404, message |-> "Document not found",
                         document |-> <<>>]

\* Both calls were entered before either query ran; the query of the second
\* settled first and found the record, the first was answered 404 before the
\* second sent its response.
C29_Witness ==
    /\ SameRecordTwice(1, 2)
    /\ del[1].pc = "done" /\ del[1].res.status = 404
    /\ del[2].pc = "respond" /\ del[2].document # <<>>

====
